---- MODULE Spec2Model ----
(***************************************************************************)
(* Model of AddonModResourceHelperProvider                                 *)
(* (src/addon/mod/resource/providers/helper.ts).                           *)
(*                                                                         *)
(* Five specifications share the module:                                   *)
(*   Spec        - concurrent invocations of openModuleFile, each a chain  *)
(*                 of promise reactions (then / catch / finally), with     *)
(*                 the collaborators' calls recorded per invocation;       *)
(*   FairSpec    - the same steps with weak fairness on the promise        *)
(*                 reactions (the microtask queue always runs a queued     *)
(*                 reaction), for the invocations FairInvocations;         *)
(*   SpecPresent - the presentation decisions isDisplayedEmbedded,         *)
(*                 isDisplayedInIframe and getIframeSrc on a module drawn  *)
(*                 from a bounded set, with the collaborators' answers     *)
(*                 drawn from bounded sets;                                *)
(*   SpecEmbed   - getEmbeddedHtml on such a module, with the answers of   *)
(*                 getExtensionType and getMimeType and the outcome of     *)
(*                 the download drawn from bounded sets;                   *)
(*   SpecMainFile - the four presentation operations together, on modules  *)
(*                 with up to MaxFiles content files.                      *)
(*                                                                         *)
(* Strings that the code takes apart (filepath, filename, paths) are       *)
(* sequences of one-character strings; opaque strings are TLA+ strings.    *)
(***************************************************************************)
EXTENDS Integers, Sequences, FiniteSets, TLC

VARIABLES
    \* ---- openModuleFile (Spec) ----
    pc,         \* per invocation: position in the promise chain
    args,       \* per invocation: the (module, courseId) it was called with
    modal,      \* per invocation: the handle showModalLoading returned (0: none yet)
    modals,     \* domUtils: per modal object, how often it was shown and dismissed
    download,   \* per invocation: the promise downloadModuleAndOpenFile returned
    chain,      \* per invocation: state of the promise flowing down the chain
    logViewP,   \* per invocation: state of the promise logView returned
    completionP,\* per invocation: state of the promise checkModuleCompletion returned
    calls,      \* per invocation: the collaborator calls it made, in order
    \* ---- presentation decisions (SpecPresent, SpecEmbed, SpecMainFile) ----
    module,         \* the module object handed to the classifiers
    fileAvailable,  \* answer of fileProvider.isAvailable()
    mimetypeUtils,  \* answers of the MIME/extension classification utility
    embedded,       \* last isDisplayedEmbedded call: its display argument and completion
    inIframe,       \* last isDisplayedInIframe call: its completion
    iframeSrc,      \* the getIframeSrc invocation: position, calls made, result
    embeddedHtml    \* the getEmbeddedHtml invocation: position, download, result

openVars == <<pc, args, modal, modals, download, chain, logViewP, completionP, calls>>
presentVars == <<module, fileAvailable, mimetypeUtils, embedded, inIframe, iframeSrc,
                 embeddedHtml>>
vars == <<pc, args, modal, modals, download, chain, logViewP, completionP, calls,
          module, fileAvailable, mimetypeUtils, embedded, inIframe, iframeSrc,
          embeddedHtml>>

(***************************************************************************)
(* Bounds                                                                  *)
(***************************************************************************)
NumInvocations == 2
NumFairInvocations == 1
MaxFiles == 2
MaxDisplay == 2

Invocations == 1..NumInvocations
FairInvocations == { i \in Invocations : i <= NumFairInvocations }

(***************************************************************************)
(* Program constants                                                       *)
(***************************************************************************)
DISPLAY_AUTO == 0
DISPLAY_EMBED == 1
ErrorMessageKey == "addon.mod_resource.errorwhileloadingthecontent"
TextHtml == "text/html"

COMPONENT == "AddonModResourceProvider.COMPONENT"

(***************************************************************************)
(* Values                                                                  *)
(***************************************************************************)
\* Content file entries: filename and filepath as character sequences,
\* fileurl the remote URL.
\* A URL is kept as one opaque element; an absent or empty URL is <<>>.
FileNames == { <<"i", ".", "h">>, <<"p", ".", "g">> }
FileUrl == << "https://site/pluginfile.php/f" >>
FilePlaces == { [filepath |-> <<"/">>, fileurl |-> FileUrl],
                [filepath |-> <<"/", "d", "/">>, fileurl |-> <<>>] }
Files == { [filename |-> n, filepath |-> p.filepath, fileurl |-> p.fileurl] :
             n \in FileNames, p \in FilePlaces }

SeqsUpTo(S, n) == UNION { [1..k -> S] : k \in 0..n }

MainFileOnly == << [filename |-> <<"i", ".", "h">>, filepath |-> <<"/">>,
                    fileurl |-> FileUrl] >>

\* The calls made to openModuleFile: a module object and a course id (the
\* course id is an argument of its own, not read from the module).
OpenCalls ==
    { [module |-> [id |-> 11, instance |-> 21, course |-> 7, completionstatus |-> 31,
                   url |-> "https://site/mod/resource/view.php?id=11",
                   contents |-> MainFileOnly],
       courseId |-> 8],
      [module |-> [id |-> 12, instance |-> 22, course |-> 8, completionstatus |-> 32,
                   url |-> "https://site/mod/resource/view.php?id=12",
                   contents |-> <<>>],
       courseId |-> 7] }
\* The call invocation i makes when several invocations run together: odd
\* invocations open the first module, even ones the second, so that
\* invocations in flight together differ in their arguments and, from three
\* invocations on, two of them open the same module.
OpenCallsOf(i) == { c \in OpenCalls : c.module.id = 11 + ((i + 1) % 2) }
Errors == {1, 2, 3}    \* the causes downloadModuleAndOpenFile can reject with

NoModule == [id |-> 0, instance |-> 0, course |-> 0, completionstatus |-> 0,
             url |-> "", contents |-> <<>>]
NoArgs == [module |-> NoModule, courseId |-> 0]

\* One collaborator call: its name and its arguments.
Ev(call, a, b, key) == [call |-> call, a |-> a, b |-> b, key |-> key]

NoPromise == [state |-> "none", reason |-> 0]
Pending == [state |-> "pending", reason |-> 0]
Fulfilled == [state |-> "fulfilled", reason |-> 0]
Rejected(e) == [state |-> "rejected", reason |-> e]

\* domUtils.showModalLoading creates a new modal object on every call; the
\* object is named after the invocation whose call created it.
NewModal(i) == i

(***************************************************************************)
(* openModuleFile: the synchronous part of the call (lines 152-157).       *)
(* The loading modal is shown, then downloadModuleAndOpenFile is called    *)
(* and the reactions are attached to the promise it returns.               *)
(***************************************************************************)
openModuleFile(i, m, courseId) ==
    /\ pc[i] = "idle"
    /\ LET handle == NewModal(i) IN
         /\ modals' = [modals EXCEPT ![handle] = [shown |-> @.shown + 1, dismissed |-> 0]]
         /\ modal' = [modal EXCEPT ![i] = handle]
         /\ calls' = [calls EXCEPT ![i] = @ \o
                        << Ev("showModalLoading", handle, 0, ""),
                           Ev("downloadModuleAndOpenFile", m.id, courseId, COMPONENT) >>]
    /\ args' = [args EXCEPT ![i] = [module |-> m, courseId |-> courseId]]
    /\ download' = [download EXCEPT ![i] = Pending]
    /\ chain' = [chain EXCEPT ![i] = Pending]
    /\ pc' = [pc EXCEPT ![i] = "download"]
    /\ UNCHANGED <<logViewP, completionP, presentVars>>

\* The promise of courseHelper.downloadModuleAndOpenFile settles.
downloadModuleAndOpenFile(i, ok, error) ==
    /\ pc[i] = "download"
    /\ download' = [download EXCEPT ![i] = IF ok THEN Fulfilled ELSE Rejected(error)]
    /\ chain' = [chain EXCEPT ![i] = download'[i]]
    /\ pc' = [pc EXCEPT ![i] = "then"]
    /\ UNCHANGED <<args, modal, modals, logViewP, completionP, calls, presentVars>>

\* Variant: the view is logged whatever the outcome of the download was.
openModuleFile_then_always(i) ==
    /\ pc[i] = "then"
    /\ calls' = [calls EXCEPT ![i] =
                   Append(@, Ev("logView", args[i].module.instance, 0, ""))]
    /\ logViewP' = [logViewP EXCEPT ![i] = "pending"]
    /\ pc' = [pc EXCEPT ![i] = "catch"]
    /\ UNCHANGED <<args, modal, modals, download, chain, completionP, presentVars>>

\* Variant: the completion check is requested next to the view log, not after it.
openModuleFile_then_checkFirst(i) ==
    /\ pc[i] = "then"
    /\ IF chain[i].state = "fulfilled"
         THEN /\ calls' = [calls EXCEPT ![i] = @ \o
                             << Ev("checkModuleCompletion", args[i].courseId,
                                   args[i].module.completionstatus, ""),
                                Ev("logView", args[i].module.instance, 0, "") >>]
              /\ logViewP' = [logViewP EXCEPT ![i] = "pending"]
         ELSE UNCHANGED <<calls, logViewP>>
    /\ pc' = [pc EXCEPT ![i] = "catch"]
    /\ UNCHANGED <<args, modal, modals, download, chain, completionP, presentVars>>

\* .then(() => { logView(module.instance).then(...) }) (lines 157-161): runs
\* on fulfilment only and returns undefined; a rejection passes through.
openModuleFile_then(i) ==
    /\ pc[i] = "then"
    /\ IF chain[i].state = "fulfilled"
         THEN /\ calls' = [calls EXCEPT ![i] =
                             Append(@, Ev("logView", args[i].module.instance, 0, ""))]
              /\ logViewP' = [logViewP EXCEPT ![i] = "pending"]
         ELSE UNCHANGED <<calls, logViewP>>
    /\ pc' = [pc EXCEPT ![i] = "catch"]
    /\ UNCHANGED <<args, modal, modals, download, chain, completionP, presentVars>>

\* Variant: the catch callback dismisses the modal itself, and finally does again.
openModuleFile_catch_dismisses(i) ==
    /\ pc[i] = "catch"
    /\ IF chain[i].state = "rejected"
         THEN /\ calls' = [calls EXCEPT ![i] = @ \o
                             << Ev("showErrorModalDefault", chain[i].reason, 0,
                                   ErrorMessageKey),
                                Ev("dismiss", modal[i], 0, "") >>]
              /\ modals' = [modals EXCEPT ![modal[i]].dismissed = @ + 1]
              /\ chain' = [chain EXCEPT ![i] = Fulfilled]
         ELSE UNCHANGED <<calls, chain, modals>>
    /\ pc' = [pc EXCEPT ![i] = "finally"]
    /\ UNCHANGED <<args, modal, download, logViewP, completionP, presentVars>>

\* Variant: on a failure the modal is dismissed first, the error is shown after
\* it, and the chain ends there.
openModuleFile_catch_dismissFirst(i) ==
    /\ pc[i] = "catch"
    /\ IF chain[i].state = "rejected"
         THEN /\ calls' = [calls EXCEPT ![i] = @ \o
                             << Ev("dismiss", modal[i], 0, ""),
                                Ev("showErrorModalDefault", chain[i].reason, 0,
                                   ErrorMessageKey) >>]
              /\ modals' = [modals EXCEPT ![modal[i]].dismissed = @ + 1]
              /\ chain' = [chain EXCEPT ![i] = Fulfilled]
              /\ pc' = [pc EXCEPT ![i] = "settle"]
         ELSE /\ pc' = [pc EXCEPT ![i] = "finally"]
              /\ UNCHANGED <<calls, chain, modals>>
    /\ UNCHANGED <<args, modal, download, logViewP, completionP, presentVars>>

\* Variant: the catch callback shows the error and throws it again.
openModuleFile_catch_rethrows(i) ==
    /\ pc[i] = "catch"
    /\ IF chain[i].state = "rejected"
         THEN calls' = [calls EXCEPT ![i] =
                          Append(@, Ev("showErrorModalDefault", chain[i].reason, 0,
                                       ErrorMessageKey))]
         ELSE UNCHANGED calls
    /\ pc' = [pc EXCEPT ![i] = "finally"]
    /\ UNCHANGED <<args, modal, modals, download, chain, logViewP, completionP,
                   presentVars>>

\* Variant: the then callback returns the logView promise, so the rest of the
\* chain does not run before that promise settles.
openModuleFile_catch_awaitsLogView(i) ==
    /\ pc[i] = "catch"
    /\ logViewP[i] # "pending"
    /\ IF chain[i].state = "rejected"
         THEN /\ calls' = [calls EXCEPT ![i] =
                             Append(@, Ev("showErrorModalDefault", chain[i].reason, 0,
                                          ErrorMessageKey))]
              /\ chain' = [chain EXCEPT ![i] = Fulfilled]
         ELSE UNCHANGED <<calls, chain>>
    /\ pc' = [pc EXCEPT ![i] = "finally"]
    /\ UNCHANGED <<args, modal, modals, download, logViewP, completionP, presentVars>>

\* .catch((error) => { showErrorModalDefault(error, key, true) }) (lines 161-163):
\* runs on rejection only and returns undefined, so the chain is fulfilled after it.
openModuleFile_catch(i) ==
    /\ pc[i] = "catch"
    /\ IF chain[i].state = "rejected"
         THEN /\ calls' = [calls EXCEPT ![i] =
                             Append(@, Ev("showErrorModalDefault", chain[i].reason, 0,
                                          ErrorMessageKey))]
              /\ chain' = [chain EXCEPT ![i] = Fulfilled]
         ELSE UNCHANGED <<calls, chain>>
    /\ pc' = [pc EXCEPT ![i] = "finally"]
    /\ UNCHANGED <<args, modal, modals, download, logViewP, completionP, presentVars>>

\* Variant: the modal is kept in a field shared by all invocations, so the
\* handle dismissed is the one of the latest invocation started.
openModuleFile_finally_shared(i) ==
    /\ pc[i] = "finally"
    /\ LET started == { j \in Invocations : pc[j] # "idle" }
           latest == CHOOSE j \in started : \A k \in started : k <= j
       IN  /\ calls' = [calls EXCEPT ![i] = Append(@, Ev("dismiss", modal[latest], 0, ""))]
           /\ modals' = [modals EXCEPT ![modal[latest]].dismissed = @ + 1]
    /\ pc' = [pc EXCEPT ![i] = "settle"]
    /\ UNCHANGED <<args, modal, download, chain, logViewP, completionP, presentVars>>

\* .finally(() => { modal.dismiss() }) (lines 163-165): runs on every
\* settlement and leaves the state of the chain as it is.
openModuleFile_finally(i) ==
    /\ pc[i] = "finally"
    /\ calls' = [calls EXCEPT ![i] = Append(@, Ev("dismiss", modal[i], 0, ""))]
    /\ modals' = [modals EXCEPT ![modal[i]].dismissed = @ + 1]
    /\ pc' = [pc EXCEPT ![i] = "settle"]
    /\ UNCHANGED <<args, modal, download, chain, logViewP, completionP, presentVars>>

\* The promise openModuleFile returned settles with the state of the chain.
openModuleFile_settle(i) ==
    /\ pc[i] = "settle"
    /\ pc' = [pc EXCEPT ![i] = "done"]
    /\ UNCHANGED <<args, modal, modals, download, chain, logViewP, completionP, calls,
                   presentVars>>

\* The promise of resourceProvider.logView settles.
logView(i, ok) ==
    /\ logViewP[i] = "pending"
    /\ logViewP' = [logViewP EXCEPT ![i] = IF ok THEN "fulfilled" ELSE "rejected"]
    /\ UNCHANGED <<pc, args, modal, modals, download, chain, completionP, calls,
                   presentVars>>

\* Variant: a rejected view log is reported to the user.
logView_then_showsError(i) ==
    /\ logViewP[i] \in {"fulfilled", "rejected"}
    /\ IF logViewP[i] = "fulfilled"
         THEN /\ calls' = [calls EXCEPT ![i] =
                             Append(@, Ev("checkModuleCompletion", args[i].courseId,
                                          args[i].module.completionstatus, ""))]
              /\ logViewP' = [logViewP EXCEPT ![i] = "handled"]
              /\ completionP' = [completionP EXCEPT ![i] = "pending"]
         ELSE /\ calls' = [calls EXCEPT ![i] =
                             Append(@, Ev("showErrorModalDefault", 0, 0, ErrorMessageKey))]
              /\ logViewP' = [logViewP EXCEPT ![i] = "unhandled"]
              /\ UNCHANGED completionP
    /\ UNCHANGED <<pc, args, modal, modals, download, chain, presentVars>>

\* logView(...).then(() => { checkModuleCompletion(courseId, completionstatus) })
\* (lines 158-160): runs on fulfilment only; a rejection is left unhandled.
logView_then(i) ==
    /\ logViewP[i] \in {"fulfilled", "rejected"}
    /\ IF logViewP[i] = "fulfilled"
         THEN /\ calls' = [calls EXCEPT ![i] =
                             Append(@, Ev("checkModuleCompletion", args[i].courseId,
                                          args[i].module.completionstatus, ""))]
              /\ logViewP' = [logViewP EXCEPT ![i] = "handled"]
              /\ completionP' = [completionP EXCEPT ![i] = "pending"]
         ELSE /\ logViewP' = [logViewP EXCEPT ![i] = "unhandled"]
              /\ UNCHANGED <<calls, completionP>>
    /\ UNCHANGED <<pc, args, modal, modals, download, chain, presentVars>>

\* The promise of courseProvider.checkModuleCompletion settles; the code
\* keeps no reference to it.
checkModuleCompletion(i, ok) ==
    /\ completionP[i] = "pending"
    /\ completionP' = [completionP EXCEPT ![i] = IF ok THEN "fulfilled" ELSE "rejected"]
    /\ UNCHANGED <<pc, args, modal, modals, download, chain, logViewP, calls,
                   presentVars>>


(***************************************************************************)
(* Presentation decisions                                                  *)
(***************************************************************************)
\* Completion of a synchronous call: whether it threw, and the value returned.
Normal(v) == [threw |-> FALSE, value |-> v]

\* mimetypeUtils.getFileExtension: the characters after the last dot.
getFileExtension(filename) ==
    LET dots == { k \in 1..Len(filename) : filename[k] = "." }
        last == CHOOSE k \in dots : \A j \in dots : j <= k
    IN  IF dots = {} THEN <<>> ELSE SubSeq(filename, last + 1, Len(filename))

Exts == { getFileExtension(n) : n \in FileNames }
Mimes == { TextHtml, "image/png" }
\* The answers of the classification utility, per extension.
\* (getExtensionType is asked by getEmbeddedHtml only.)
ExtTypes == { "image", "audio", "video", "document" }
DefaultTypes == [e \in Exts |-> "document"]
MimetypeTables == [ canBeEmbedded : [Exts -> BOOLEAN], getMimeType : [Exts -> Mimes],
                    getExtensionType : {DefaultTypes} ]
Displays == 0..MaxDisplay
PresentModules ==
    { [id |-> 11, instance |-> 21, course |-> 7, completionstatus |-> 31,
       url |-> "https://site/mod/resource/view.php?id=11", contents |-> c] :
         c \in SeqsUpTo(Files, MaxFiles) }

\* Variant: the main file is the last entry of the contents.
MainFile_last(m) == m.contents[Len(m.contents)]

\* The main file of a module: the first entry of its contents (lines 59, 90,
\* 123, 139).
MainFile(m) == m.contents[1]

\* Variant: only the forced-embed display mode is accepted.
isDisplayedEmbedded_embedOnly(m, display) ==
    IF Len(m.contents) = 0 \/ ~fileAvailable
      THEN Normal(FALSE)
      ELSE LET ext == getFileExtension(MainFile(m).filename)
           IN  Normal(display = DISPLAY_EMBED /\ mimetypeUtils.canBeEmbedded[ext])

\* isDisplayedEmbedded(module, display) (lines 118-126)
isDisplayedEmbedded(m, display) ==
    IF Len(m.contents) = 0 \/ ~fileAvailable
      THEN Normal(FALSE)
      ELSE LET ext == getFileExtension(MainFile(m).filename)
           IN  Normal((display = DISPLAY_EMBED \/ display = DISPLAY_AUTO)
                      /\ mimetypeUtils.canBeEmbedded[ext])

\* Variant: the availability of file storage is not asked.
isDisplayedInIframe_noAvailability(m) ==
    IF Len(m.contents) = 0
      THEN Normal(FALSE)
      ELSE LET ext == getFileExtension(MainFile(m).filename)
               mimetype == mimetypeUtils.getMimeType[ext]
           IN  Normal(mimetype = TextHtml)

\* Variant: every main file is shown in an iframe, whatever its MIME type.
isDisplayedInIframe_anyMime(m) ==
    IF Len(m.contents) = 0 \/ ~fileAvailable
      THEN Normal(FALSE)
      ELSE Normal(TRUE)

\* isDisplayedInIframe(module) (lines 134-143)
isDisplayedInIframe(m) ==
    IF Len(m.contents) = 0 \/ ~fileAvailable
      THEN Normal(FALSE)
      ELSE LET ext == getFileExtension(MainFile(m).filename)
               mimetype == mimetypeUtils.getMimeType[ext]
           IN  Normal(mimetype = TextHtml)

\* A caller asks isDisplayedEmbedded with some display mode.
Call_isDisplayedEmbedded(display) ==
    /\ embedded' = [called |-> TRUE, display |-> display,
                    result |-> isDisplayedEmbedded(module, display)]
    /\ UNCHANGED <<openVars, module, fileAvailable, mimetypeUtils, inIframe, iframeSrc,
                   embeddedHtml>>

\* A caller asks isDisplayedInIframe.
Call_isDisplayedInIframe ==
    /\ inIframe' = [called |-> TRUE, result |-> isDisplayedInIframe(module)]
    /\ UNCHANGED <<openVars, module, fileAvailable, mimetypeUtils, embedded, iframeSrc,
                   embeddedHtml>>


\* String.prototype.substr(n): the string without its first n characters.
substr(str, n) == SubSeq(str, n + 1, Len(str))

\* Variant: the leading separator of the sub-path is kept.
mainFilePath_keepSeparator(mainFile) ==
    IF mainFile.filepath # <<"/">>
      THEN mainFile.filepath \o mainFile.filename
      ELSE mainFile.filename

\* The main file's path relative to the package directory (lines 90-95).
mainFilePath(mainFile) ==
    IF mainFile.filepath # <<"/">>
      THEN substr(mainFile.filepath, 1) \o mainFile.filename
      ELSE mainFile.filename

\* textUtils.concatenatePaths: the directory followed by the relative path.
concatenatePaths(leftPath, rightPath) == leftPath \o rightPath

\* Site.fixPluginfileURL: the URL rewritten for authenticated file access.
fixPluginfileURL(url) == url \o << "?token=T" >>

\* The directories getPackageDirUrlByUrl can resolve to.
DirPaths == { <<"/", "c">>, <<"/", "c", "/">> }

PPending == [state |-> "pending", value |-> <<>>]
PFulfilled(v) == [state |-> "fulfilled", value |-> v]
PRejectedNull == [state |-> "rejected", value |-> <<>>]
\* iframeSrc also keeps the promise getPackageDirUrlByUrl returned (lookup),
\* the answer isOnline() gave, if it was asked (online), and the promise the
\* .catch callback returned, if it ran (returned).
IframeIdle == [pc |-> "idle", calls |-> <<>>, promise |-> PPending,
               lookup |-> PPending, online |-> "unasked", returned |-> PPending]

\* What the .then callback of getIframeSrc returns (line 99).
iframeLocalSrc(m, dirPath) == concatenatePaths(dirPath, mainFilePath(MainFile(m)))

\* How the .catch callback of getIframeSrc settles (lines 102-107).
iframeOnlineSrc(m, online) ==
    IF online /\ MainFile(m).fileurl # <<>>
      THEN PFulfilled(fixPluginfileURL(MainFile(m).fileurl))
      ELSE PRejectedNull

\* Variant: the test is on module.contents, not on its length, so an empty
\* list passes it and reading mainFile.filename throws.
getIframeSrc_noLengthCheck ==
    /\ iframeSrc.pc = "idle"
    /\ IF Len(module.contents) = 0
         THEN iframeSrc' = [iframeSrc EXCEPT !.pc = "done",
                              !.promise = [state |-> "threw", value |-> <<>>]]
         ELSE iframeSrc' = [iframeSrc EXCEPT !.pc = "lookup",
                              !.calls = <<"getCurrentSiteId", "getPackageDirUrlByUrl">>]
    /\ UNCHANGED <<openVars, module, fileAvailable, mimetypeUtils, embedded, inIframe,
                   embeddedHtml>>

\* getIframeSrc(module): the synchronous part of the call (lines 85-97).
getIframeSrc ==
    /\ iframeSrc.pc = "idle"
    /\ IF Len(module.contents) = 0
         THEN iframeSrc' = [iframeSrc EXCEPT !.pc = "done", !.promise = PRejectedNull]
         ELSE iframeSrc' = [iframeSrc EXCEPT !.pc = "lookup",
                              !.calls = <<"getCurrentSiteId", "getPackageDirUrlByUrl">>]
    /\ UNCHANGED <<openVars, module, fileAvailable, mimetypeUtils, embedded, inIframe,
                   embeddedHtml>>

\* The promise of filepoolProvider.getPackageDirUrlByUrl settles.
getPackageDirUrlByUrl(ok, dirPath) ==
    /\ iframeSrc.pc = "lookup"
    /\ iframeSrc' = [iframeSrc EXCEPT !.pc = "then",
                       !.lookup = IF ok THEN PFulfilled(dirPath) ELSE PRejectedNull,
                       !.promise = IF ok THEN PFulfilled(dirPath) ELSE PRejectedNull]
    /\ UNCHANGED <<openVars, module, fileAvailable, mimetypeUtils, embedded, inIframe,
                   embeddedHtml>>

\* .then((dirPath) => concatenatePaths(dirPath, mainFilePath)) (lines 97-100)
getIframeSrc_then ==
    /\ iframeSrc.pc = "then"
    /\ IF iframeSrc.promise.state = "fulfilled"
         THEN iframeSrc' = [iframeSrc EXCEPT !.pc = "catch",
                              !.calls = Append(@, "concatenatePaths"),
                              !.promise = PFulfilled(
                                  iframeLocalSrc(module, iframeSrc.promise.value))]
         ELSE iframeSrc' = [iframeSrc EXCEPT !.pc = "catch"]
    /\ UNCHANGED <<openVars, module, fileAvailable, mimetypeUtils, embedded, inIframe,
                   embeddedHtml>>

\* Variant: the online URL is returned when the device is online or the main
\* file has a URL, not only when both hold.
getIframeSrc_catch_either(online) ==
    /\ iframeSrc.pc = "catch"
    /\ IF iframeSrc.promise.state = "rejected"
         THEN iframeSrc' = [iframeSrc EXCEPT !.pc = "adopt",
                !.online = IF online THEN "online" ELSE "offline",
                !.calls = IF online \/ MainFile(module).fileurl # <<>>
                            THEN @ \o <<"isOnline", "getCurrentSite", "fixPluginfileURL">>
                            ELSE Append(@, "isOnline"),
                !.promise = PPending,
                !.returned = IF online \/ MainFile(module).fileurl # <<>>
                               THEN PFulfilled(fixPluginfileURL(MainFile(module).fileurl))
                               ELSE PRejectedNull]
         ELSE iframeSrc' = [iframeSrc EXCEPT !.pc = "done"]
    /\ UNCHANGED <<openVars, module, fileAvailable, mimetypeUtils, embedded, inIframe,
                   embeddedHtml>>

\* .catch(() => { online URL, or reject }) (lines 100-108); online is the
\* answer appProvider.isOnline() gives when the reaction runs. On a rejection
\* the callback makes its calls and returns a promise (Promise.resolve(...) or
\* Promise.reject(null)); the promise getIframeSrc returned stays pending
\* until that promise has been adopted. A fulfilment passes through.
getIframeSrc_catch(online) ==
    /\ iframeSrc.pc = "catch"
    /\ IF iframeSrc.promise.state = "rejected"
         THEN iframeSrc' = [iframeSrc EXCEPT !.pc = "adopt",
                !.online = IF online THEN "online" ELSE "offline",
                !.calls = IF online /\ MainFile(module).fileurl # <<>>
                            THEN @ \o <<"isOnline", "getCurrentSite", "fixPluginfileURL">>
                            ELSE Append(@, "isOnline"),
                !.promise = PPending,
                !.returned = iframeOnlineSrc(module, online)]
         ELSE iframeSrc' = [iframeSrc EXCEPT !.pc = "done"]
    /\ UNCHANGED <<openVars, module, fileAvailable, mimetypeUtils, embedded, inIframe,
                   embeddedHtml>>

\* The job that adopts the promise the .catch callback returned (lines
\* 103-107): it subscribes to that promise; nothing is settled yet.
getIframeSrc_adopt ==
    /\ iframeSrc.pc = "adopt"
    /\ iframeSrc' = [iframeSrc EXCEPT !.pc = "settle"]
    /\ UNCHANGED <<openVars, module, fileAvailable, mimetypeUtils, embedded, inIframe,
                   embeddedHtml>>

\* The reaction on the adopted promise: the promise getIframeSrc returned
\* settles as the promise the .catch callback returned.
getIframeSrc_settle ==
    /\ iframeSrc.pc = "settle"
    /\ iframeSrc' = [iframeSrc EXCEPT !.pc = "done", !.promise = iframeSrc.returned]
    /\ UNCHANGED <<openVars, module, fileAvailable, mimetypeUtils, embedded, inIframe,
                   embeddedHtml>>


(***************************************************************************)
(* getEmbeddedHtml (lines 56-77)                                           *)
(***************************************************************************)
\* The local paths and the failure causes downloadModuleWithMainFileIfNeeded
\* can settle with.
LocalPaths == { <<"/", "d", "/", "r">>, <<"/", "t">> }
EmbedErrors == { "storage error", "network error" }

\* A promise of getEmbeddedHtml: a markup string or a path as value, a cause
\* of rejection as reason.
EPending == [state |-> "pending", value |-> <<>>, reason |-> ""]
EFulfilled(v) == [state |-> "fulfilled", value |-> v, reason |-> ""]
ERejected(e) == [state |-> "rejected", value |-> <<>>, reason |-> e]
EmbeddedHtmlIdle == [pc |-> "idle", calls |-> <<>>, download |-> EPending,
                     promise |-> EPending]

\* Variant: the image refers to the file's remote URL, not to the local path.
embeddedMarkup_remoteImage(m, path) ==
    LET file == MainFile(m)
        ext == getFileExtension(file.filename)
        type == mimetypeUtils.getExtensionType[ext]
        mimeType == mimetypeUtils.getMimeType[ext]
    IN  IF type = "image"
          THEN << "<img src=\"" >> \o file.fileurl \o << "\"></img>" >>
          ELSE IF type = "audio" \/ type = "video"
            THEN << "<", type, " controls title=\"" >> \o file.filename
                   \o << "\"", "\"", " src=\"" >> \o path \o << "\">" >>
                   \o << "<source src=\"" >> \o path \o << "\" type=\"", mimeType, "\">" >>
                   \o << "</", type, ">" >>
            ELSE <<>>

\* The markup the .then callback returns for the path the download resolved
\* to (lines 59-75). The literal '"" src="' is kept quote by quote.
embeddedMarkup(m, path) ==
    LET file == MainFile(m)
        ext == getFileExtension(file.filename)
        type == mimetypeUtils.getExtensionType[ext]
        mimeType == mimetypeUtils.getMimeType[ext]
    IN  IF type = "image"
          THEN << "<img src=\"" >> \o path \o << "\"></img>" >>
          ELSE IF type = "audio" \/ type = "video"
            THEN << "<", type, " controls title=\"" >> \o file.filename
                   \o << "\"", "\"", " src=\"" >> \o path \o << "\">" >>
                   \o << "<source src=\"" >> \o path \o << "\" type=\"", mimeType, "\">" >>
                   \o << "</", type, ">" >>
            ELSE <<>>

\* getEmbeddedHtml(module): the synchronous part of the call (lines 56-58).
getEmbeddedHtml ==
    /\ embeddedHtml.pc = "idle"
    /\ embeddedHtml' = [embeddedHtml EXCEPT !.pc = "download",
                          !.calls = <<"downloadModuleWithMainFileIfNeeded">>]
    /\ UNCHANGED <<openVars, module, fileAvailable, mimetypeUtils, embedded, inIframe,
                   iframeSrc>>

\* The promise of courseHelper.downloadModuleWithMainFileIfNeeded settles.
downloadModuleWithMainFileIfNeeded(ok, path, error) ==
    /\ embeddedHtml.pc = "download"
    /\ embeddedHtml' = [embeddedHtml EXCEPT !.pc = "then",
                          !.download = IF ok THEN EFulfilled(path) ELSE ERejected(error)]
    /\ UNCHANGED <<openVars, module, fileAvailable, mimetypeUtils, embedded, inIframe,
                   iframeSrc>>

\* Variant: a failed download is turned into an empty markup.
getEmbeddedHtml_then_swallows ==
    /\ embeddedHtml.pc = "then"
    /\ embeddedHtml' = [embeddedHtml EXCEPT !.pc = "done",
         !.promise =
            IF embeddedHtml.download.state = "fulfilled"
              THEN IF Len(module.contents) = 0
                     THEN ERejected("TypeError")
                     ELSE EFulfilled(embeddedMarkup(module, embeddedHtml.download.value))
              ELSE EFulfilled(<<>>)]
    /\ UNCHANGED <<openVars, module, fileAvailable, mimetypeUtils, embedded, inIframe,
                   iframeSrc>>

\* .then((result) => { ... }) (lines 58-76): runs on fulfilment only; a
\* rejection passes through. With no content file, file is undefined and
\* reading file.filename throws a TypeError, which rejects the promise.
getEmbeddedHtml_then ==
    /\ embeddedHtml.pc = "then"
    /\ embeddedHtml' = [embeddedHtml EXCEPT !.pc = "done",
         !.promise =
            IF embeddedHtml.download.state = "fulfilled"
              THEN IF Len(module.contents) = 0
                     THEN ERejected("TypeError")
                     ELSE EFulfilled(embeddedMarkup(module, embeddedHtml.download.value))
              ELSE embeddedHtml.download]
    /\ UNCHANGED <<openVars, module, fileAvailable, mimetypeUtils, embedded, inIframe,
                   iframeSrc>>

(***************************************************************************)
(* Specifications                                                          *)
(***************************************************************************)
DefaultTable == [ canBeEmbedded |-> [e \in Exts |-> FALSE],
                  getMimeType |-> [e \in Exts |-> TextHtml],
                  getExtensionType |-> DefaultTypes ]
EmbeddedNotCalled == [called |-> FALSE, display |-> 0, result |-> Normal(FALSE)]
InIframeNotCalled == [called |-> FALSE, result |-> Normal(FALSE)]

InitOpen ==
    /\ pc = [i \in Invocations |-> "idle"]
    /\ args = [i \in Invocations |-> NoArgs]
    /\ modal = [i \in Invocations |-> 0]
    /\ modals = [h \in Invocations |-> [shown |-> 0, dismissed |-> 0]]
    /\ download = [i \in Invocations |-> NoPromise]
    /\ chain = [i \in Invocations |-> NoPromise]
    /\ logViewP = [i \in Invocations |-> "none"]
    /\ completionP = [i \in Invocations |-> "none"]
    /\ calls = [i \in Invocations |-> <<>>]

InitPresent ==
    /\ embedded = EmbeddedNotCalled
    /\ inIframe = InIframeNotCalled
    /\ iframeSrc = IframeIdle
    /\ embeddedHtml = EmbeddedHtmlIdle

\* openModuleFile: no presentation decision is in progress.
Init ==
    /\ InitOpen
    /\ InitPresent
    /\ module = NoModule
    /\ fileAvailable = TRUE
    /\ mimetypeUtils = DefaultTable

\* The steps of invocation i, called with one of choices, and of the
\* collaborators it waits for.
OpenStep(i, choices) ==
    \/ \E c \in choices : openModuleFile(i, c.module, c.courseId)
    \/ \E ok \in BOOLEAN, e \in Errors : downloadModuleAndOpenFile(i, ok, e)
    \/ openModuleFile_then(i)
    \/ openModuleFile_catch(i)
    \/ openModuleFile_finally(i)
    \/ openModuleFile_settle(i)
    \/ \E ok \in BOOLEAN : logView(i, ok)
    \/ logView_then(i)
    \/ \E ok \in BOOLEAN : checkModuleCompletion(i, ok)

Next == \E i \in Invocations : OpenStep(i, OpenCallsOf(i))

Spec == Init /\ [][Next]_vars

\* The same steps for the invocations FairInvocations, with the scheduling the
\* microtask queue guarantees: a queued promise reaction always runs. Whether
\* and when the collaborators' promises settle is up to them. Each invocation
\* is called with any of OpenCalls.
NextFair == \E i \in FairInvocations : OpenStep(i, OpenCalls)

FairSpec ==
    /\ Init
    /\ [][NextFair]_vars
    /\ \A i \in FairInvocations :
         /\ WF_vars(openModuleFile_then(i))
         /\ WF_vars(openModuleFile_catch(i))
         /\ WF_vars(openModuleFile_finally(i))
         /\ WF_vars(openModuleFile_settle(i))
         /\ WF_vars(logView_then(i))

\* Presentation decisions on a module and collaborator answers drawn from
\* bounded sets; no openModuleFile invocation is made.
InitDecide ==
    /\ InitOpen
    /\ InitPresent
    /\ module \in PresentModules
    /\ fileAvailable \in BOOLEAN
    /\ mimetypeUtils \in MimetypeTables

NextPresent ==
    \/ \E d \in Displays : Call_isDisplayedEmbedded(d)
    \/ Call_isDisplayedInIframe
    \/ getIframeSrc
    \/ \E ok \in BOOLEAN, d \in DirPaths : getPackageDirUrlByUrl(ok, d)
    \/ getIframeSrc_then
    \/ \E online \in BOOLEAN : getIframeSrc_catch(online)
    \/ getIframeSrc_adopt
    \/ getIframeSrc_settle

SpecPresent == InitDecide /\ [][NextPresent]_vars

\* getEmbeddedHtml on a module drawn from a bounded set, with the answers of
\* getExtensionType and getMimeType drawn from bounded sets.
EmbedTables == [ canBeEmbedded : {[e \in Exts |-> TRUE]}, getMimeType : [Exts -> Mimes],
                 getExtensionType : [Exts -> ExtTypes] ]

InitEmbed ==
    /\ InitOpen
    /\ InitPresent
    /\ module \in PresentModules
    /\ fileAvailable = TRUE
    /\ mimetypeUtils \in EmbedTables

NextEmbed ==
    \/ getEmbeddedHtml
    \/ \E ok \in BOOLEAN, path \in LocalPaths, e \in EmbedErrors :
         downloadModuleWithMainFileIfNeeded(ok, path, e)
    \/ getEmbeddedHtml_then

SpecEmbed == InitEmbed /\ [][NextEmbed]_vars

\* The four presentation operations on one module whose content files are
\* drawn from two files that differ in name, extension, path and URL, with
\* every answer of canBeEmbedded and getMimeType and an answer of
\* getExtensionType that tells the two extensions apart, so that each
\* operation's result depends on the file it reads.
MainFiles == { f \in Files : (f.filename = <<"i", ".", "h">>) = (f.filepath = <<"/">>) }
MainFileModules ==
    { m \in PresentModules : \A k \in 1..Len(m.contents) : m.contents[k] \in MainFiles }
MainFileTypes ==
    [e \in Exts |-> IF e = getFileExtension(<<"i", ".", "h">>) THEN "video" ELSE "image"]
MainFileTables == [ canBeEmbedded : [Exts -> BOOLEAN],
                    getMimeType : [Exts -> Mimes],
                    getExtensionType : {MainFileTypes} ]

InitMainFile ==
    /\ InitOpen
    /\ InitPresent
    /\ module \in MainFileModules
    /\ fileAvailable = TRUE
    /\ mimetypeUtils \in MainFileTables

NextMainFile ==
    \/ NextPresent
    \/ NextEmbed

SpecMainFile == InitMainFile /\ [][NextMainFile]_vars



(***************************************************************************)
(* Claims about openModuleFile                                             *)
(***************************************************************************)
\* The positions in invocation i's call log of the calls named name.
CallsNamed(i, name) == { k \in 1..Len(calls[i]) : calls[i][k].call = name }
NumCalls(i, name) == Cardinality(CallsNamed(i, name))
DownloadSettled(i) == download[i].state \in {"fulfilled", "rejected"}

\* C1: in every invocation of openModuleFile the loading modal is shown
\* first and the download/open call comes right after it; the modal is shown
\* once, dismissed at most once and never before the download/open promise
\* has settled; when the invocation is done it was shown once and dismissed once.
C1_ShowThenDismissOnce ==
    \A i \in Invocations :
      /\ pc[i] = "idle" => calls[i] = <<>>
      /\ pc[i] # "idle" =>
           /\ CallsNamed(i, "showModalLoading") = {1}
           /\ CallsNamed(i, "downloadModuleAndOpenFile") = {2}
           /\ calls[i][1].a = modal[i]
      /\ NumCalls(i, "dismiss") <= 1
      /\ NumCalls(i, "dismiss") = 1 => DownloadSettled(i)
      /\ pc[i] = "done" =>
           /\ NumCalls(i, "dismiss") = 1
           /\ modals[modal[i]] = [shown |-> 1, dismissed |-> 1]

\* Both a failed and a successful invocation have run to their end.
C1_Witness ==
    \E i, j \in Invocations :
      /\ pc[i] = "done" /\ download[i].state = "rejected"
      /\ pc[j] = "done" /\ download[j].state = "fulfilled"

\* C2: whenever the promise openModuleFile returned has settled it is
\* fulfilled, with no value, whether the download/open succeeded or failed.
C2_AlwaysResolves ==
    \A i \in Invocations : pc[i] = "done" => chain[i] = Fulfilled

\* An invocation whose download/open failed has settled.
C2_Witness ==
    \E i \in Invocations : pc[i] = "done" /\ download[i].state = "rejected"

\* C3: once the catch reaction has run after a failed download/open, exactly
\* one error display was requested, with the fixed message key and the cause
\* of the failure; a failed invocation never logs a view nor asks for a
\* completion check; an invocation that did not fail never shows an error.
C3_ErrorShownOnFailureOnly ==
    \A i \in Invocations :
      /\ (download[i].state = "rejected" /\ pc[i] \in {"finally", "settle", "done"}) =>
           /\ NumCalls(i, "showErrorModalDefault") = 1
           /\ \A k \in CallsNamed(i, "showErrorModalDefault") :
                /\ calls[i][k].key = ErrorMessageKey
                /\ calls[i][k].a = download[i].reason
      /\ download[i].state = "rejected" =>
           /\ NumCalls(i, "logView") = 0
           /\ NumCalls(i, "checkModuleCompletion") = 0
      /\ download[i].state # "rejected" => NumCalls(i, "showErrorModalDefault") = 0

\* A failed invocation has shown its error.
C3_Witness ==
    \E i \in Invocations :
      /\ download[i].state = "rejected"
      /\ NumCalls(i, "showErrorModalDefault") = 1
      /\ pc[i] = "done"

\* C4: the view is logged, for the module's instance, only after the
\* download/open has succeeded; the completion check is requested, for the
\* course id and the module's completion status, only after the view log
\* call, and each of the two at most once.
C4_ReportingOrder ==
    \A i \in Invocations :
      /\ NumCalls(i, "logView") <= 1
      /\ NumCalls(i, "checkModuleCompletion") <= 1
      /\ \A k \in CallsNamed(i, "logView") :
           /\ download[i].state = "fulfilled"
           /\ k > 2
           /\ calls[i][k].a = args[i].module.instance
      /\ \A k \in CallsNamed(i, "checkModuleCompletion") :
           /\ \E j \in CallsNamed(i, "logView") : j < k
           /\ calls[i][k].a = args[i].courseId
           /\ calls[i][k].b = args[i].module.completionstatus

\* A completion check has been requested.
C4_Witness ==
    \E i \in Invocations : NumCalls(i, "checkModuleCompletion") = 1

\* C5: when the view log or the completion check has failed, no error display
\* is requested, the modal is dismissed at most once, and a settled result is
\* fulfilled with the modal dismissed exactly once.
SecondaryFailed(i) ==
    \/ logViewP[i] \in {"rejected", "unhandled"}
    \/ completionP[i] = "rejected"

C5_SecondaryFailureSwallowed ==
    \A i \in Invocations :
      SecondaryFailed(i) =>
        /\ NumCalls(i, "showErrorModalDefault") = 0
        /\ NumCalls(i, "dismiss") <= 1
        /\ pc[i] = "done" =>
             /\ chain[i] = Fulfilled
             /\ NumCalls(i, "dismiss") = 1

\* One invocation has settled after its view log failed, another after its
\* completion check failed.
C5_Witness ==
    \E i, j \in Invocations :
      /\ pc[i] = "done" /\ logViewP[i] = "unhandled"
      /\ pc[j] = "done" /\ completionP[j] = "rejected"

\* C6: once the download/open promise has settled, the modal is eventually
\* dismissed and the returned promise eventually settles, fulfilled, whether
\* or not the logView promise ever settles.
C6_ResultDoesNotWaitForReporting ==
    \A i \in FairInvocations :
      DownloadSettled(i) ~>
        (pc[i] = "done" /\ chain[i] = Fulfilled /\ NumCalls(i, "dismiss") = 1)

\* The returned promise has settled while the view log is still pending.
C6_Witness ==
    \E i \in Invocations : pc[i] = "done" /\ logViewP[i] = "pending"


(***************************************************************************)
(* Claims about the presentation decisions                                 *)
(***************************************************************************)
HasMainFile == Len(module.contents) > 0
MainExt == getFileExtension(module.contents[1].filename)

\* C7: isDisplayedEmbedded returns true exactly when the display mode is
\* automatic (0) or forced embed (1), the classification utility reports the
\* main file's extension embeddable, file storage is available and the module
\* has a content file; it returns false in every other case and never throws.
C7_EmbeddedIff ==
    embedded.called =>
      embedded.result =
        Normal(/\ HasMainFile
               /\ fileAvailable
               /\ embedded.display \in {0, 1}
               /\ mimetypeUtils.canBeEmbedded[MainExt])

\* The classifier has answered true, for the automatic display mode.
C7_Witness ==
    /\ embedded.called
    /\ embedded.display = 0
    /\ embedded.result = Normal(TRUE)

\* C8: isDisplayedInIframe returns true exactly when the MIME type of the
\* main file's extension is text/html, file storage is available and the
\* module has a content file; the display mode asked about elsewhere has no
\* part in it.
C8_InIframeIff ==
    inIframe.called =>
      inIframe.result =
        Normal(/\ HasMainFile
               /\ fileAvailable
               /\ mimetypeUtils.getMimeType[MainExt] = TextHtml)

\* The classifier has answered true although the embed classifier, asked
\* with a display mode that is neither automatic nor forced embed, said false.
C8_Witness ==
    /\ inIframe.called /\ inIframe.result = Normal(TRUE)
    /\ embedded.called /\ embedded.display = 2

\* C9 as stated: the two classifiers never both answer true.
C9_NeverBoth ==
    (embedded.called /\ inIframe.called) =>
      ~(embedded.result.value /\ inIframe.result.value)

\* C9, amended: the two classifiers both answer true only when the
\* classification utility reports the main file's extension embeddable and
\* gives it the MIME type text/html; with a utility that never does both for
\* one extension, at most one of them answers true.
C9_BothOnlyForEmbeddableHtml ==
    (embedded.called /\ inIframe.called) =>
      ((embedded.result.value /\ inIframe.result.value) =>
         /\ HasMainFile
         /\ mimetypeUtils.canBeEmbedded[MainExt]
         /\ mimetypeUtils.getMimeType[MainExt] = TextHtml)

\* Both classifiers have answered for an embeddable main file that is not
\* HTML: embed is true, iframe is false.
C9_Witness ==
    /\ embedded.called /\ inIframe.called
    /\ HasMainFile
    /\ mimetypeUtils.getMimeType[MainExt] # TextHtml
    /\ embedded.result = Normal(TRUE)
    /\ inIframe.result = Normal(FALSE)

\* C10: for a module without content files, isDisplayedEmbedded and
\* isDisplayedInIframe return false without throwing, and getIframeSrc
\* returns a rejected promise at once, without calling the file pool, the
\* sites provider or the connectivity probe.
C10_EmptyContents ==
    ~HasMainFile =>
      /\ embedded.called => embedded.result = Normal(FALSE)
      /\ inIframe.called => inIframe.result = Normal(FALSE)
      /\ iframeSrc.pc # "idle" =>
           /\ iframeSrc.pc = "done"
           /\ iframeSrc.calls = <<>>
           /\ iframeSrc.promise = PRejectedNull

\* All three operations have been applied to a module without content files.
C10_Witness ==
    /\ ~HasMainFile
    /\ embedded.called /\ inIframe.called
    /\ fileAvailable
    /\ iframeSrc.pc = "done"


(***************************************************************************)
(* Claims about getIframeSrc                                               *)
(***************************************************************************)
IframeDone == iframeSrc.pc = "done" /\ HasMainFile
Called(name) == \E k \in 1..Len(iframeSrc.calls) : iframeSrc.calls[k] = name

\* C11: on a module with content files getIframeSrc is a two-tier fallback.
\* When the directory lookup succeeded the result is the local path and the
\* site's URL rewrite is never asked; when it failed, the device is online
\* and the main file has a URL, the result is that URL rewritten by
\* fixPluginfileURL; when it failed and the device is offline or the main
\* file has no URL, the result is rejected.
C11_TwoTierFallback ==
    IframeDone =>
      /\ iframeSrc.lookup.state = "fulfilled" =>
           /\ iframeSrc.promise =
                PFulfilled(concatenatePaths(iframeSrc.lookup.value,
                                            mainFilePath(module.contents[1])))
           /\ ~Called("fixPluginfileURL")
           /\ iframeSrc.online = "unasked"
      /\ (/\ iframeSrc.lookup.state = "rejected"
          /\ iframeSrc.online = "online"
          /\ module.contents[1].fileurl # <<>>) =>
           iframeSrc.promise = PFulfilled(fixPluginfileURL(module.contents[1].fileurl))
      /\ (/\ iframeSrc.lookup.state = "rejected"
          /\ (iframeSrc.online = "offline" \/ module.contents[1].fileurl = <<>>)) =>
           iframeSrc.promise = PRejectedNull
      /\ Called("fixPluginfileURL") => iframeSrc.lookup.state = "rejected"
      /\ iframeSrc.lookup.state \in {"fulfilled", "rejected"}
      /\ iframeSrc.lookup.state = "rejected" => iframeSrc.online # "unasked"

\* The lookup failed and the device was online, but the main file had no URL:
\* the result is rejected.
C11_Witness ==
    /\ IframeDone
    /\ iframeSrc.lookup.state = "rejected"
    /\ iframeSrc.online = "online"
    /\ module.contents[1].fileurl = <<>>
    /\ iframeSrc.promise = PRejectedNull

\* C12: when the directory lookup succeeded the result is the directory
\* followed directly by the main file's relative path, with no separator put
\* in between; the relative path is the filename alone when the sub-path is
\* "/", and otherwise the sub-path without its first character followed by
\* the filename.
C12_LiteralConcatenation ==
    (IframeDone /\ iframeSrc.lookup.state = "fulfilled") =>
      LET file == module.contents[1]
          relative == IF file.filepath = <<"/">>
                        THEN file.filename
                        ELSE Tail(file.filepath) \o file.filename
      IN  /\ iframeSrc.promise.state = "fulfilled"
          /\ iframeSrc.promise.value = iframeSrc.lookup.value \o relative

\* Directory "/c", sub-path "/", filename "i.h" has given "/ci.h".
C12_Witness ==
    /\ IframeDone
    /\ iframeSrc.lookup = PFulfilled(<<"/", "c">>)
    /\ module.contents[1].filepath = <<"/">>
    /\ module.contents[1].filename = <<"i", ".", "h">>
    /\ iframeSrc.promise = PFulfilled(<<"/", "c", "i", ".", "h">>)

\* C13 as stated: whenever getIframeSrc has settled on a module with content
\* files, a download of the module's files was requested before.
DownloadCallNames ==
    { "downloadModuleWithMainFileIfNeeded", "downloadModuleAndOpenFile",
      "downloadModule", "downloadPackage", "downloadOrPrefetch" }

C13_DownloadsBeforeResolving ==
    IframeDone => \E k \in 1..Len(iframeSrc.calls) :
                    iframeSrc.calls[k] \in DownloadCallNames

(***************************************************************************)
(* Claims about getEmbeddedHtml, checked under SpecEmbed                   *)
(***************************************************************************)
EmbedType == mimetypeUtils.getExtensionType[MainExt]
EmbedMime == mimetypeUtils.getMimeType[MainExt]
EmbedDownloaded == /\ embeddedHtml.pc = "done"
                   /\ HasMainFile
                   /\ embeddedHtml.download.state = "fulfilled"
Contains(v, part) == \E k \in 1..(Len(v) - Len(part) + 1) :
                        SubSeq(v, k, k + Len(part) - 1) = part

\* C14: when the first content file's extension is of the image category and
\* the download resolved to local path P, getEmbeddedHtml resolves to exactly
\* <img src="P"></img>; and no markup is produced before, or without, the
\* download having succeeded.
C14_ImageMarkup ==
    /\ (EmbedDownloaded /\ EmbedType = "image")
         => embeddedHtml.promise =
              EFulfilled(<< "<img src=\"" >> \o embeddedHtml.download.value
                           \o << "\"></img>" >>)
    /\ embeddedHtml.promise.state = "fulfilled"
         => embeddedHtml.download.state = "fulfilled"
    /\ embeddedHtml.pc \in {"idle", "download", "then"}
         => embeddedHtml.promise = EPending

C14_Witness ==
    /\ EmbedDownloaded
    /\ EmbedType = "image"
    /\ module.contents[1].fileurl # <<>>
    /\ embeddedHtml.promise.state = "fulfilled"

\* C15: for the audio or video category the markup is a well-formed element:
\* the outer tag is the category, it has the controls attribute and a title
\* attribute whose quoted value is the filename with nothing stray after the
\* closing quote, it nests a source element with the same path and the MIME
\* type, and it ends with the matching end tag; for any other category the
\* result is the empty string.
C15_MediaMarkup ==
    /\ (EmbedDownloaded /\ EmbedType \in {"audio", "video"})
         => LET v == embeddedHtml.promise.value
                path == embeddedHtml.download.value
                open == << "<", EmbedType, " controls title=\"" >>
                          \o module.contents[1].filename \o << "\"" >>
                source == << "<source src=\"" >> \o path
                            \o << "\" type=\"", EmbedMime, "\">" >>
                end == << "</", EmbedType, ">" >>
            IN  /\ embeddedHtml.promise.state = "fulfilled"
                /\ Len(v) > Len(open) + Len(source) + Len(end)
                /\ SubSeq(v, 1, Len(open)) = open
                /\ v[Len(open) + 1] # "\""
                /\ Contains(v, source)
                /\ SubSeq(v, Len(v) - Len(end) + 1, Len(v)) = end
    /\ (EmbedDownloaded /\ EmbedType \notin {"image", "audio", "video"})
         => embeddedHtml.promise = EFulfilled(<<>>)

\* C16: when the download fails, getEmbeddedHtml rejects with exactly the
\* cause the download failed with, and no markup is produced.
C16_DownloadFailurePropagates ==
    (embeddedHtml.pc = "done" /\ embeddedHtml.download.state = "rejected")
      => embeddedHtml.promise = ERejected(embeddedHtml.download.reason)

C16_Witness ==
    /\ embeddedHtml.pc = "done"
    /\ HasMainFile
    /\ embeddedHtml.download = ERejected("network error")
    /\ embeddedHtml.promise.state = "rejected"

(***************************************************************************)
(* Claim about all four operations, checked under SpecMainFile             *)
(***************************************************************************)
\* C17: the four operations depend on the first content file only: every
\* result obtained for the module is the result for any other resource with
\* the same first content file (whatever follows it), under the same
\* collaborator answers.
C17_OnlyFirstFile ==
    HasMainFile =>
      \A rest \in SeqsUpTo(MainFiles, MaxFiles - 1) :
        LET m2 == [module EXCEPT !.contents = <<module.contents[1]>> \o rest]
        IN  /\ embedded.called
                 => embedded.result = isDisplayedEmbedded(m2, embedded.display)
            /\ inIframe.called
                 => inIframe.result = isDisplayedInIframe(m2)
            /\ iframeSrc.pc = "done"
                 => iframeSrc.promise =
                      IF iframeSrc.lookup.state = "fulfilled"
                        THEN PFulfilled(iframeLocalSrc(m2, iframeSrc.lookup.value))
                        ELSE iframeOnlineSrc(m2, iframeSrc.online = "online")
            /\ (embeddedHtml.pc = "done" /\ embeddedHtml.download.state = "fulfilled")
                 => embeddedHtml.promise =
                      EFulfilled(embeddedMarkup(m2, embeddedHtml.download.value))

\* All four operations have completed, each with a result that the second
\* content file would have changed: the first file can be embedded, is HTML,
\* lies in the root directory and has a URL; the second is none of these.
C17_Witness ==
    /\ Len(module.contents) = 2
    /\ module.contents[1].filename # module.contents[2].filename
    /\ module.contents[1].filepath # module.contents[2].filepath
    /\ module.contents[1].fileurl # module.contents[2].fileurl
    /\ LET ext1 == getFileExtension(module.contents[1].filename)
           ext2 == getFileExtension(module.contents[2].filename)
       IN  /\ mimetypeUtils.canBeEmbedded[ext1] /\ ~mimetypeUtils.canBeEmbedded[ext2]
           /\ mimetypeUtils.getMimeType[ext1] = TextHtml
           /\ mimetypeUtils.getMimeType[ext2] # TextHtml
           /\ mimetypeUtils.getExtensionType[ext1] # mimetypeUtils.getExtensionType[ext2]
    /\ embedded.called /\ embedded.result = Normal(TRUE)
    /\ inIframe.called /\ inIframe.result = Normal(TRUE)
    /\ iframeSrc.pc = "done"
    /\ iframeSrc.promise.state = "fulfilled"
    /\ embeddedHtml.pc = "done"
    /\ embeddedHtml.promise.state = "fulfilled"

(***************************************************************************)
(* Claims about concurrent invocations and ordering, checked under Spec    *)
(***************************************************************************)
Started == { i \in Invocations : pc[i] # "idle" }
ShownHandles == { h \in Invocations : modals[h].shown > 0 }
DismissedHandles == { h \in Invocations : modals[h].dismissed > 0 }

\* C18: with several invocations in flight, each invocation dismisses only
\* the modal it showed itself, and at most once; the modals of different
\* invocations are different; once all invocations have settled every modal
\* shown was dismissed exactly once; and the failure of one invocation shows
\* no error and suppresses no view log in another: an invocation shows an
\* error only for its own failed download, with its own cause, and logs the
\* view and checks completion with its own arguments whenever its own
\* download succeeded.
C18_InvocationsIndependent ==
    /\ \A i \in Started :
         /\ \A k \in CallsNamed(i, "dismiss") : calls[i][k].a = calls[i][1].a
         /\ modals[calls[i][1].a].shown = 1
         /\ modals[calls[i][1].a].dismissed = NumCalls(i, "dismiss")
         /\ \A j \in Started : j # i => calls[j][1].a # calls[i][1].a
         /\ \A k \in CallsNamed(i, "showErrorModalDefault") :
              download[i] = Rejected(calls[i][k].a)
         /\ (download[i].state = "fulfilled" /\ pc[i] \notin {"download", "then"})
              => /\ NumCalls(i, "logView") = 1
                 /\ NumCalls(i, "showErrorModalDefault") = 0
         /\ \A k \in CallsNamed(i, "logView") : calls[i][k].a = args[i].module.instance
         /\ \A k \in CallsNamed(i, "checkModuleCompletion") :
              /\ calls[i][k].a = args[i].courseId
              /\ calls[i][k].b = args[i].module.completionstatus
    /\ \A h \in Invocations : modals[h].dismissed <= modals[h].shown
    /\ (\A i \in Invocations : pc[i] \in {"idle", "done"})
         => /\ DismissedHandles = ShownHandles
            /\ Cardinality(ShownHandles) = Cardinality(Started)

\* Two invocations with different arguments have overlapped and settled, one
\* after a failed download and one after a successful one whose view was
\* logged and whose completion was checked.
C18_Witness ==
    \E i, j \in Invocations :
      /\ i # j
      /\ pc[i] = "done" /\ pc[j] = "done"
      /\ args[i] # args[j]
      /\ download[i].state = "rejected"
      /\ NumCalls(i, "showErrorModalDefault") = 1
      /\ download[j].state = "fulfilled"
      /\ NumCalls(j, "checkModuleCompletion") = 1
      /\ modals[modal[i]].dismissed = 1
      /\ modals[modal[j]].dismissed = 1
      /\ modal[i] # modal[j]

\* C19: on the failure path the error display is requested before the modal
\* is dismissed, and on every path the returned promise settles only after
\* the modal has been dismissed.
C19_DismissBeforeSettle ==
    \A i \in Invocations :
      /\ \A e \in CallsNamed(i, "showErrorModalDefault") :
           \A d \in CallsNamed(i, "dismiss") : e < d
      /\ (download[i].state = "rejected" /\ NumCalls(i, "dismiss") > 0)
           => NumCalls(i, "showErrorModalDefault") > 0
      /\ pc[i] = "done"
           => /\ NumCalls(i, "dismiss") > 0
              /\ modals[modal[i]].dismissed > 0
      /\ NumCalls(i, "dismiss") = 0 => pc[i] \notin {"settle", "done"}

\* A failed invocation has settled: error shown, then modal dismissed; and a
\* successful one has settled after its dismissal.
C19_Witness ==
    \E i, j \in Invocations :
      /\ pc[i] = "done"
      /\ download[i].state = "rejected"
      /\ \E e \in CallsNamed(i, "showErrorModalDefault") :
           \E d \in CallsNamed(i, "dismiss") : e < d
      /\ pc[j] = "done"
      /\ download[j].state = "fulfilled"
      /\ calls[j][Len(calls[j])].call = "dismiss"


====
